---- MODULE Spec2Model ----
(***************************************************************************)
(* Rectangular bathymetry meshes: MeshStructured (MeshStructured.py) and   *)
(* its older variant MeshRectangle (MeshRectangle.py).  One live instance  *)
(* of either class, the one configuration file both classes read and       *)
(* write, and the last call made on the instance (its arguments, locals   *)
(* and outcome).                                                           *)
(***************************************************************************)
EXTENDS Integers, Sequences, FiniteSets, TLC

VARIABLES cls, self, fs, call

vars == <<cls, self, fs, call>>

----------------------------------------------------------------------------
(* Bounds of the model.                                                    *)

\* Corner coordinates handed to load / __init__ are multiples of CoordStep
\* from 0 to MaxCoordIdx * CoordStep.
MaxCoordIdx == 2

\* A bathymetry or variable cloud handed to exec / set_var holds from 3 to
\* MaxSamples samples.
MaxSamples == 4

----------------------------------------------------------------------------
(* Python values.  A number carries its Python type, because str() and     *)
(* int() / float() tell 5 from 5.0.  Within the bounds every number the    *)
(* configuration code handles is integral, so v is an integer.             *)

None == [t |-> "none", v |-> 0]

\* An attribute that was never assigned: reading it raises AttributeError.
Unset == [t |-> "unset", v |-> 0]

PyInt(n) == [t |-> "int", v |-> n]

PyFloat(n) == [t |-> "float", v |-> n]

IsNum(a) == a.t \in {"int", "float"}

\* The type of an arithmetic result: float as soon as one operand is.
Join(a, b) == IF a.t = "float" \/ b.t = "float" THEN "float" ELSE "int"

\* min(a, b) and max(a, b) return one of their arguments, the first on a tie.
PyMin(a, b) == IF b.v < a.v THEN b ELSE a

PyMax(a, b) == IF b.v > a.v THEN b ELSE a

PySub(a, b) == [t |-> Join(a, b), v |-> a.v - b.v]

PyMul(a, b) == [t |-> Join(a, b), v |-> a.v * b.v]

Abs(n) == IF n < 0 THEN -n ELSE n

\* round(n / d) for d # 0: Python rounds to the nearest integer and an exact
\* tie to the even neighbour; the result is an int.
PyRound(n, d) ==
    LET sn == IF d < 0 THEN -n ELSE n
        sd == Abs(d)
        q  == sn \div sd
        r  == sn - q * sd
    IN  IF 2 * r < sd THEN q
        ELSE IF 2 * r > sd THEN q + 1
        ELSE IF q % 2 = 0 THEN q ELSE q + 1

----------------------------------------------------------------------------
(* Text of a number in the configuration file.  k is the shape of the      *)
(* literal: "int" is digits only ("5"), "float" is Python's repr of a      *)
(* float ("5.0").                                                          *)

Text(k, n) == [k |-> k, v |-> n]

\* f'{a}' of a number.
Str(a) == Text(a.t, a.v)

\* float(text) accepts every shape.
ParseFloat(txt) == [ok |-> TRUE, val |-> PyFloat(txt.v)]

\* int(text) accepts digits only: int("5.0") raises ValueError.
ParseInt(txt) == [ok |-> txt.k = "int", val |-> PyInt(txt.v)]

\* A section's data: a set of [n |-> option name, t |-> text].
Has(data, n) == \E e \in data : e.n = n

Get(data, n) == (CHOOSE e \in data : e.n = n).t

HasSection(f, k) == \E sec \in f.sections : sec.name = k

Section(f, k) == (CHOOSE sec \in f.sections : sec.name = k).data

NoFile == [exists |-> FALSE, sections |-> {}]

\* open(path, 'w') with nothing written yet.
EmptyFile == [exists |-> TRUE, sections |-> {}]

\* The option names of a coordinate mode, in the order
\* origin x, origin y, spacing x, spacing y, count x, count y.
VarNames(coord_type) ==
    IF coord_type = "LONLAT"
    THEN <<"lonmin", "latmin", "dlon", "dlat", "nlon", "nlat">>
    ELSE <<"xmin", "ymin", "dx", "dy", "nx", "ny">>

AttrNames == <<"xmin", "ymin", "dx", "dy", "nx", "ny">>

----------------------------------------------------------------------------
(* MeshStructured: construction, load, read_conf, save_conf.               *)

DefaultSpacing == 100

\* MeshStructured.__init__
StructuredInit(key, coord_type) ==
    [key |-> key, coord_type |-> coord_type,
     xmin |-> None, ymin |-> None,
     x |-> <<>>, y |-> <<>>, z |-> <<>>,
     dx |-> None, dy |-> None, nx |-> None, ny |-> None,
     lx |-> None, ly |-> None]

\* MeshStructured.save_conf: one section named by the key, six options.
SaveConf(s) ==
    LET names == VarNames(s.coord_type)
    IN  [exists |-> TRUE,
         sections |-> {[name |-> s.key,
                        data |-> {[n |-> names[i], t |-> Str(s[AttrNames[i]])]
                                  : i \in 1..6}]}]

\* The rounding of load and of MeshRectangle.__init__.
Round(n, d) == PyRound(n, d)

\* An origin that is the first corner as given, the corners not ordered.
OriginFirst(a, b) == a

\* The origin load takes from two corner values.
Origin(a, b) == PyMin(a, b)

\* MeshStructured.load with the four corners given: the assignments in the
\* order of the code, stopping at the first statement that raises.
LoadCorners(s, x1, x2, y1, y2, dx_, dy_) ==
    LET xmax   == PyMax(x1, x2)
        ymax   == PyMax(y1, y2)
        s1     == [s EXCEPT !.xmin = Origin(x1, x2), !.ymin = Origin(y1, y2)]
        width  == PySub(xmax, s1.xmin)
        heigth == PySub(ymax, s1.ymin)
        s2     == [s1 EXCEPT !.dx = dx_, !.dy = dy_]
    IN  IF dx_.v = 0 THEN [s |-> s2, err |-> "ZeroDivisionError"]
        ELSE LET s3 == [s2 EXCEPT !.nx = PyInt(Round(width.v, dx_.v))]
             IN  IF dy_.v = 0 THEN [s |-> s3, err |-> "ZeroDivisionError"]
                 ELSE LET s4 == [s3 EXCEPT !.ny = PyInt(Round(heigth.v, dy_.v))]
                      IN  [s |-> [s4 EXCEPT !.lx = PyMul(s4.nx, s4.dx),
                                            !.ly = PyMul(s4.ny, s4.dy)],
                           err |-> "ok"]

\* Lines 125-130 of read_conf from option i on: an option that is present is
\* parsed (float for origin and spacing, int for the counts) and assigned, an
\* absent one leaves the attribute as it was; a parse error stops there.
RECURSIVE ReadOptions(_, _, _, _)
ReadOptions(s, data, names, i) ==
    IF i > 6 THEN [s |-> s, err |-> "ok"]
    ELSE IF ~Has(data, names[i]) THEN ReadOptions(s, data, names, i + 1)
    ELSE LET p == IF i <= 4 THEN ParseFloat(Get(data, names[i]))
                            ELSE ParseInt(Get(data, names[i]))
         IN  IF ~p.ok THEN [s |-> s, err |-> "ValueError"]
             ELSE ReadOptions([s EXCEPT ![AttrNames[i]] = p.val], data, names, i + 1)

\* MeshStructured.read_conf: every exception inside the try is re-raised as
\* ValueError, and so is a missing file.
ReadConf(s, f) ==
    IF ~f.exists THEN [s |-> s, err |-> "ValueError"]
    ELSE IF ~HasSection(f, s.key) THEN [s |-> s, err |-> "ValueError"]
    ELSE LET r == ReadOptions(s, Section(f, s.key), VarNames(s.coord_type), 1)
         IN  IF r.err # "ok" THEN r
             ELSE IF ~(IsNum(r.s.nx) /\ IsNum(r.s.dx))
                  THEN [s |-> r.s, err |-> "ValueError"]
             ELSE LET s1 == [r.s EXCEPT !.lx = PyMul(r.s.nx, r.s.dx)]
                  IN  IF ~(IsNum(s1.ny) /\ IsNum(s1.dy))
                      THEN [s |-> s1, err |-> "ValueError"]
                      ELSE [s |-> [s1 EXCEPT !.ly = PyMul(s1.ny, s1.dy)],
                            err |-> "ok"]

----------------------------------------------------------------------------
(* MeshRectangle: __init__, read_conf, save_conf.                          *)

\* The attributes __init__ assigns before it branches (lines 24-29).
RectangleInit(dx_, dy_) ==
    [key |-> "", coord_type |-> "UTM",
     xmin |-> Unset, ymin |-> Unset,
     x |-> <<>>, y |-> <<>>, z |-> <<>>,
     dx |-> dx_, dy |-> dy_, nx |-> Unset, ny |-> Unset,
     lx |-> Unset, ly |-> Unset]

\* MeshRectangle.__init__, corner branch (lines 34-43).
RectangleCorners(s, x1, x2, y1, y2) ==
    LET xmax   == PyMax(x1, x2)
        ymax   == PyMax(y1, y2)
        s1     == [s EXCEPT !.xmin = Origin(x1, x2), !.ymin = Origin(y1, y2)]
        width  == PySub(xmax, s1.xmin)
        heigth == PySub(ymax, s1.ymin)
    IN  IF s.dx.v = 0 THEN [s |-> s1, err |-> "ZeroDivisionError"]
        ELSE LET s2 == [s1 EXCEPT !.nx = PyInt(Round(width.v, s.dx.v))]
             IN  IF s.dy.v = 0 THEN [s |-> s2, err |-> "ZeroDivisionError"]
                 ELSE [s |-> [s2 EXCEPT !.ny = PyInt(Round(heigth.v, s.dy.v))],
                       err |-> "ok"]

\* MeshRectangle.save_conf: open(path, 'w') creates the file empty, and the
\* first write formats '[{:s}}]', whose single '}' makes str.format raise
\* ValueError before anything is written.
RectangleSaveConf(s, key) == [fs |-> EmptyFile, err |-> "ValueError"]

\* MeshRectangle.read_conf: the origin options are read unconditionally, the
\* others fall back to the attribute, which for the counts does not exist
\* yet.  Spacing and counts are parsed with int().
RectangleReadConf(s, f, key) ==
    IF ~f.exists THEN [s |-> s, err |-> "ValueError"]
    ELSE IF ~HasSection(f, key) THEN [s |-> s, err |-> "KeyError"]
    ELSE
      LET data == Section(f, key)
          opt(s0, name, attr) ==
              IF Has(data, name)
              THEN LET p == ParseInt(Get(data, name))
                   IN  IF p.ok THEN [s |-> [s0 EXCEPT ![attr] = p.val], err |-> "ok"]
                       ELSE [s |-> s0, err |-> "ValueError"]
              ELSE IF s0[attr] = Unset THEN [s |-> s0, err |-> "AttributeError"]
              ELSE [s |-> s0, err |-> "ok"]
      IN  IF ~Has(data, "xmin") THEN [s |-> s, err |-> "KeyError"]
          ELSE LET s1 == [s EXCEPT !.xmin = ParseFloat(Get(data, "xmin")).val]
          IN  IF ~Has(data, "ymin") THEN [s |-> s1, err |-> "KeyError"]
          ELSE LET s2 == [s1 EXCEPT !.ymin = ParseFloat(Get(data, "ymin")).val]
                   r3 == opt(s2, "dx", "dx")
          IN  IF r3.err # "ok" THEN r3
          ELSE LET r4 == opt(r3.s, "dy", "dy")
          IN  IF r4.err # "ok" THEN r4
          ELSE LET r5 == opt(r4.s, "nx", "nx")
          IN  IF r5.err # "ok" THEN r5
          ELSE opt(r5.s, "ny", "ny")

----------------------------------------------------------------------------
(* Arrays.  A 2-D array is a sequence of rows.  A depth is a fraction n/d  *)
(* in lowest terms with d > 0; d = 0 is NaN, the "no data" marker.         *)

NaN == [n |-> 0, d |-> 0]

RECURSIVE GCD(_, _)
GCD(a, b) == IF b = 0 THEN a ELSE GCD(b, a % b)

Frac(n, d) ==
    LET g  == GCD(Abs(n), Abs(d))
        sg == IF d < 0 THEN -1 ELSE 1
    IN  [n |-> (sg * n) \div g, d |-> (sg * d) \div g]

Reverse(q) == [i \in 1..Len(q) |-> q[Len(q) + 1 - i]]

\* The number of elements of a range that holds its stop value whenever the
\* step reaches it exactly.
ArangeLenInclusive(start, stop, step) ==
    LET sn == IF step < 0 THEN start - stop ELSE stop - start
    IN  IF sn < 0 THEN 0 ELSE (sn \div Abs(step)) + 1

\* The number of elements of np.arange(start, stop, step), step # 0:
\* ceil((stop - start) / step), and none when that is negative.
ArangeLen(start, stop, step) ==
    LET sn == IF step < 0 THEN start - stop ELSE stop - start
        c  == -((-sn) \div Abs(step))
    IN  IF c < 0 THEN 0 ELSE c

\* np.arange(start, stop, step)
Arange(start, stop, step) ==
    [i \in 1..ArangeLen(start, stop, step) |-> start + (i - 1) * step]

\* np.meshgrid(x_ext, y_ext): Len(y_ext) rows of Len(x_ext) columns.
MeshgridX(x_ext, y_ext) == [i \in 1..Len(y_ext) |-> x_ext]

MeshgridY(x_ext, y_ext) ==
    [i \in 1..Len(y_ext) |-> [j \in 1..Len(x_ext) |-> y_ext[i]]]

\* np.flipud
Flipud(a) == Reverse(a)

\* The elements of a 2-D array.
Elements(a) == UNION {{a[i][j] : j \in 1..Len(a[i])} : i \in 1..Len(a)}

SetMin(S) == CHOOSE m \in S : \A e \in S : m <= e

SetMax(S) == CHOOSE m \in S : \A e \in S : m >= e

----------------------------------------------------------------------------
(* Triangulation and piecewise-linear interpolation (scipy's Delaunay,     *)
(* find_simplex and barycentric transform), on integer coordinates.       *)

Pt(px, py, i) == [x |-> px[i], y |-> py[i]]

\* Twice the signed area of triangle a b c: positive when counter-clockwise.
Orient(a, b, c) == (b.x - a.x) * (c.y - a.y) - (b.y - a.y) * (c.x - a.x)

\* p lies strictly inside the circle through a, b, c.
InCircle(a, b, c, p) ==
    LET adx == a.x - p.x
        ady == a.y - p.y
        bdx == b.x - p.x
        bdy == b.y - p.y
        cdx == c.x - p.x
        cdy == c.y - p.y
        ad  == adx * adx + ady * ady
        bd  == bdx * bdx + bdy * bdy
        cd  == cdx * cdx + cdy * cdy
        det == adx * (bdy * cd - bd * cdy) - ady * (bdx * cd - bd * cdx)
               + ad * (bdx * cdy - bdy * cdx)
    IN  det * Orient(a, b, c) > 0

\* The triangles a Delaunay triangulation may hold: three input points, as
\* indices i < j < k, not collinear, no other input point strictly inside
\* their circle.
Candidates(px, py) ==
    LET N == Len(px)
    IN  {t \in (1..N) \X (1..N) \X (1..N) :
           /\ t[1] < t[2] /\ t[2] < t[3]
           /\ Orient(Pt(px, py, t[1]), Pt(px, py, t[2]), Pt(px, py, t[3])) # 0
           /\ \A m \in (1..N) \ {t[1], t[2], t[3]} :
                ~InCircle(Pt(px, py, t[1]), Pt(px, py, t[2]), Pt(px, py, t[3]),
                          Pt(px, py, m))}

\* Triangle u lies in the closed half plane beyond some edge of t.
BeyondAnEdge(px, py, t, u) ==
    \E e \in {<<1, 2, 3>>, <<2, 3, 1>>, <<3, 1, 2>>} :
        LET a == Pt(px, py, t[e[1]])
            b == Pt(px, py, t[e[2]])
            c == Pt(px, py, t[e[3]])
        IN  \A m \in 1..3 : Orient(a, b, Pt(px, py, u[m])) * Orient(a, b, c) <= 0

\* Two triangles with disjoint interiors: an edge of one separates them.
Apart(px, py, t, u) == BeyondAnEdge(px, py, t, u) \/ BeyondAnEdge(px, py, u, t)

\* What Delaunay(points) may return: the candidates, and where four or more
\* points lie on one circle, each way of triangulating them (Qhull's 'Qt').
\* No triangulation at all is Qhull's error on fewer than three points or on
\* collinear points.
\* (A value used several times is bound through a one-element set, here
\* and below, so that it is computed once.)
Delaunay(px, py) ==
    UNION {{T \in SUBSET cand :
              /\ T # {}
              /\ \A t \in T : \A u \in T \ {t} : Apart(px, py, t, u)
              /\ \A c \in cand \ T : \E t \in T : ~Apart(px, py, c, t)}
           : cand \in {Candidates(px, py)}}

\* The barycentric weights of p in triangle t, as numerators over the
\* common denominator den (twice the triangle's signed area).
Weights(px, py, t, p) ==
    LET a == Pt(px, py, t[1])
        b == Pt(px, py, t[2])
        c == Pt(px, py, t[3])
    IN  [w |-> <<Orient(p, b, c), Orient(a, p, c), Orient(a, b, p)>>,
         den |-> Orient(a, b, c)]

\* p lies in triangle t, its boundary included.
Contains(px, py, t, p) ==
    LET bw == Weights(px, py, t, p)
    IN  \A m \in 1..3 : bw.w[m] * bw.den >= 0

\* tri.find_simplex(p): a triangle of T holding p, or 0 ("-1") if none does.
\* On an edge shared by two triangles either may be found; the interpolant
\* is continuous there, so the value does not depend on which.
FindSimplex(px, py, T, p) ==
    IF \E t \in T : Contains(px, py, t, p)
    THEN CHOOSE t \in T : Contains(px, py, t, p)
    ELSE <<0, 0, 0>>

\* The weighted sum of the values at the triangle's vertices.
WeightedSum(px, py, vals, t, p) ==
    LET bw == Weights(px, py, t, p)
    IN  Frac(bw.w[1] * vals[t[1]] + bw.w[2] * vals[t[2]] + bw.w[3] * vals[t[3]],
             bw.den)

\* LinearNDInterpolator at p (griddata, method='linear'): the fill value NaN
\* outside the hull.
Linear(px, py, vals, T, p) ==
    CHOOSE v \in {IF t = <<0, 0, 0>> THEN NaN ELSE WeightedSum(px, py, vals, t, p)
                   : t \in {FindSimplex(px, py, T, p)}} : TRUE

\* griddata((px, py), vals, (x, y), method='linear') on triangulation T.
Griddata(px, py, vals, x, y, T) ==
    [i \in 1..Len(x) |->
        [j \in 1..Len(x[i]) |->
            Linear(px, py, vals, T, [x |-> x[i][j], y |-> y[i][j]])]]

\* set_var's interp_weights and interpolate at p: simplex -1 is used as an
\* index, and np.take(tri.simplices, -1, axis=0) is the last simplex.
TakeSimplex(px, py, T, last, p) ==
    CHOOSE v \in {IF t = <<0, 0, 0>> THEN last ELSE t
                   : t \in {FindSimplex(px, py, T, p)}} : TRUE

InterpolateVar(px, py, vals, x, y, T, last) ==
    [i \in 1..Len(x) |->
        [j \in 1..Len(x[i]) |->
            CHOOSE v \in {WeightedSum(px, py, vals, t, [x |-> x[i][j], y |-> y[i][j]])
                           : t \in {TakeSimplex(px, py, T, last,
                                                [x |-> x[i][j], y |-> y[i][j]])}}
                     : TRUE]]

\* A node is outside the convex hull of the points: no triangle holds it.
OutsideHull(px, py, T, p) == \A t \in T : ~Contains(px, py, t, p)

----------------------------------------------------------------------------
(* exec and set_var.                                                       *)

\* int(a / b) for b > 0: truncation towards zero.
Trunc(a, b) == IF a >= 0 THEN a \div b ELSE -((-a) \div b)

\* int(len(xb) * factor_select), the fraction being f.n / f.d with f.d > 0.
SampleSize(N, f) == Trunc(N * f.n, f.d)

\* A choice with replacement: k indices of 0..N-1, an index possibly twice.
ChoiceWithReplacement(N, k) == [1..k -> 0..(N - 1)]

\* What np.random.choice(N, k, replace=False) may return when 0 <= k <= N:
\* k indices of 0..N-1 (Python counts from 0), no index twice, in any order.
Choice(N, k) ==
    {q \in [1..k -> 0..(N - 1)] : \A i \in 1..k : \A j \in 1..k : i # j => q[i] # q[j]}

\* a[indices]
Take(a, indices) == [i \in 1..Len(indices) |-> a[indices[i] + 1]]

\* The node coordinates of lines 181-188 (MeshStructured) and 94-101
\* (MeshRectangle), before the rows of y are reversed.
NodeAxes(s) ==
    LET xmax == s.xmin.v + s.nx.v * s.dx.v
        ymax == s.ymin.v + s.ny.v * s.dy.v
    IN  [x_ext |-> Arange(s.xmin.v, xmax, s.dx.v),
         y_ext |-> Arange(s.ymin.v, ymax, s.dy.v)]

\* The y rows exec stores: np.flipud of the meshgrid's.
ExecY(x_ext, y_ext) == Flipud(MeshgridY(x_ext, y_ext))

\* exec lines 181-189: TypeError on a parameter that is None, arange's error
\* on a zero step, then x and y are stored, and np.nanmin raises ValueError
\* on an array without elements; xmin and ymin become array minima.
ExecGrid(s) ==
    IF \E a \in {"xmin", "ymin", "dx", "dy", "nx", "ny"} : ~IsNum(s[a])
    THEN [s |-> s, err |-> "TypeError"]
    ELSE IF s.dx.v = 0 \/ s.dy.v = 0 THEN [s |-> s, err |-> "ZeroDivisionError"]
    ELSE CHOOSE r \in
           {IF Elements(s1.x) = {} THEN [s |-> s1, err |-> "ValueError"]
            ELSE [s |-> [s1 EXCEPT
                           !.xmin = [t |-> Join(s.xmin, s.dx), v |-> SetMin(Elements(s1.x))],
                           !.ymin = [t |-> Join(s.ymin, s.dy), v |-> SetMin(Elements(s1.y))]],
                  err |-> "ok"]
            : s1 \in {[s EXCEPT !.x = MeshgridX(NodeAxes(s).x_ext, NodeAxes(s).y_ext),
                                !.y = ExecY(NodeAxes(s).x_ext, NodeAxes(s).y_ext)]}}
           : TRUE

\* MeshRectangle.exec lines 94-101: the same grid, no minima taken.
RectangleGrid(s) ==
    IF s.dx.v = 0 \/ s.dy.v = 0 THEN [s |-> s, err |-> "ZeroDivisionError"]
    ELSE [s |-> [s EXCEPT !.x = MeshgridX(NodeAxes(s).x_ext, NodeAxes(s).y_ext),
                          !.y = ExecY(NodeAxes(s).x_ext, NodeAxes(s).y_ext)],
          err |-> "ok"]

\* p lies on the segment from a to b.
OnSegment(a, b, p) ==
    /\ Orient(a, b, p) = 0
    /\ (p.x - a.x) * (p.x - b.x) <= 0
    /\ (p.y - a.y) * (p.y - b.y) <= 0

\* The ray from p towards +x crosses the edge from a to b.
Crosses(a, b, p) ==
    /\ (a.y > p.y) # (b.y > p.y)
    /\ IF b.y > a.y
       THEN (p.x - a.x) * (b.y - a.y) < (p.y - a.y) * (b.x - a.x)
       ELSE (p.x - a.x) * (b.y - a.y) > (p.y - a.y) * (b.x - a.x)

\* The edges of the polygon with vertices (xc[i], yc[i]), the last vertex
\* joined to the first.
Edges(xc, yc) ==
    {<<Pt(xc, yc, i), Pt(xc, yc, (i % Len(xc)) + 1)>> : i \in 1..Len(xc)}

OnBoundary(xc, yc, p) == \E e \in Edges(xc, yc) : OnSegment(e[1], e[2], p)

\* Even-odd rule: an odd number of edges crossed.
Inside(xc, yc, p) ==
    Cardinality({e \in Edges(xc, yc) : Crosses(e[1], e[2], p)}) % 2 = 1

\* What Path(contour).contains_points(nodes) may return: decided inside and
\* outside the polygon; on its boundary matplotlib's answer depends on the
\* edge's direction and on rounding, so either.
Masks(xc, yc, x, y) ==
    {m \in [1..Len(x) -> [1..(IF Len(x) = 0 THEN 0 ELSE Len(x[1])) -> BOOLEAN]] :
        \A i \in 1..Len(x) : \A j \in 1..Len(x[i]) :
            LET p == [x |-> x[i][j], y |-> y[i][j]]
            IN  OnBoundary(xc, yc, p) \/ (m[i][j] = Inside(xc, yc, p))}

\* np.where(mask, z, np.nan)
Where(mask, z) ==
    [i \in 1..Len(z) |-> [j \in 1..Len(z[i]) |-> IF mask[i][j] THEN z[i][j] ELSE NaN]]

NoLocals == [indices |-> <<>>, xb_s |-> <<>>, yb_s |-> <<>>, zb_s |-> <<>>, tri |-> {}]

\* exec lines 200-207 on the reduced cloud `loc`: griddata raises on points
\* that cannot be triangulated; with a contour (xc # <<>>, <<>> being None)
\* the nodes outside it become NaN.
ExecInterpolate(s, loc, xc, yc) ==
    UNION {IF tris = {}
           THEN {[s |-> s, err |-> "QhullError", loc |-> loc]}
           ELSE IF xc = <<>>
           THEN {[s |-> [s EXCEPT !.z = Griddata(loc.xb_s, loc.yb_s, loc.zb_s,
                                                 s.x, s.y, T)],
                  err |-> "ok",
                  loc |-> [loc EXCEPT !.tri = T]] : T \in tris}
           ELSE {[s |-> [s EXCEPT !.z = Where(tm[2],
                                              Griddata(loc.xb_s, loc.yb_s, loc.zb_s,
                                                       s.x, s.y, tm[1]))],
                  err |-> "ok",
                  loc |-> [loc EXCEPT !.tri = tm[1]]]
                  : tm \in tris \X Masks(xc, yc, s.x, s.y)}
           : tris \in {Delaunay(loc.xb_s, loc.yb_s)}}

\* exec lines 194-198 after the grid step g: np.random.choice raises
\* ValueError on a negative size and on a size above the population;
\* otherwise it has drawn `indices`.
ExecSample(g, xb, yb, zb, xc, yc, f, indices) ==
    IF g.err # "ok" THEN {[s |-> g.s, err |-> g.err, loc |-> NoLocals]}
    ELSE IF SampleSize(Len(xb), f) < 0 \/ SampleSize(Len(xb), f) > Len(xb)
    THEN {[s |-> g.s, err |-> "ValueError", loc |-> NoLocals]}
    ELSE UNION {ExecInterpolate(g.s, loc, xc, yc)
                : loc \in {[indices |-> indices, xb_s |-> Take(xb, indices),
                            yb_s |-> Take(yb, indices), zb_s |-> Take(zb, indices),
                            tri |-> {}]}}

\* The outcomes of exec(xb, yb, zb, xc, yc, factor_select=f) on an instance
\* of class c, the random choice having drawn `indices`: the new attributes,
\* the exception raised ("ok" if none) and the locals.
ExecResults(s, c, xb, yb, zb, xc, yc, f, indices) ==
    UNION {ExecSample(g, xb, yb, zb, xc, yc, f, indices)
           : g \in {IF c = "MeshRectangle" THEN RectangleGrid(s) ELSE ExecGrid(s)}}

\* The y rows set_var returns: the meshgrid's, as they come.
SetVarY(x_, y_) == MeshgridY(x_, y_)

NoRet == [x_mesh |-> <<>>, y_mesh |-> <<>>, var_mesh |-> <<>>]

\* A set_var that reads no grid parameter and returns no field.
SetVarUnchecked(s, px, py, var) == {[err |-> "ok", ret |-> NoRet, tri |-> {}]}

\* The outcomes of set_var(x, y, var): the exception raised and the three
\* arrays returned.  Nothing of the instance changes.  `last` is the simplex
\* at the end of tri.simplices, whose order is Qhull's.
SetVarResults(s, px, py, var) ==
    IF \E a \in {"xmin", "ymin", "dx", "dy", "nx", "ny"} : ~IsNum(s[a])
    THEN {[err |-> "TypeError", ret |-> NoRet, tri |-> {}]}
    ELSE IF s.dx.v = 0 \/ s.dy.v = 0
    THEN {[err |-> "ZeroDivisionError", ret |-> NoRet, tri |-> {}]}
    ELSE UNION {IF tris = {}
                THEN {[err |-> "QhullError", ret |-> NoRet, tri |-> {}]}
                ELSE {[err |-> "ok",
                       ret |-> [x_mesh |-> m.x_mesh, y_mesh |-> m.y_mesh,
                                var_mesh |-> InterpolateVar(px, py, var, m.x_mesh,
                                                            m.y_mesh, tl[1], tl[2])],
                       tri |-> tl[1]] : tl \in {tl \in tris \X UNION tris :
                                                   tl[2] \in tl[1]}}
                : tris \in {Delaunay(px, py)},
                  m \in {[x_mesh |-> MeshgridX(NodeAxes(s).x_ext, NodeAxes(s).y_ext),
                          y_mesh |-> SetVarY(NodeAxes(s).x_ext, NodeAxes(s).y_ext)]}}

----------------------------------------------------------------------------
(* The state machine.                                                      *)

\* No instance: before the first construction, and after a constructor
\* raised.
NoSelf ==
    [key |-> "", coord_type |-> "UTM",
     xmin |-> Unset, ymin |-> Unset,
     x |-> <<>>, y |-> <<>>, z |-> <<>>,
     dx |-> Unset, dy |-> Unset, nx |-> Unset, ny |-> Unset,
     lx |-> Unset, ly |-> Unset]

Init ==
    /\ cls = "none"
    /\ self = NoSelf
    /\ fs = NoFile
    /\ call = [op |-> "none", err |-> "ok"]

\* MeshStructured(key, coord_type)
NewStructured(key, coord_type) ==
    /\ cls' = "MeshStructured"
    /\ self' = StructuredInit(key, coord_type)
    /\ call' = [op |-> "MeshStructured", err |-> "ok"]
    /\ UNCHANGED fs

\* load(x1, x2, y1, y2, dx, dy, file_mesh_ini_save): save is whether a path
\* to save to is given.
Load(x1, x2, y1, y2, dx_, dy_, save) ==
    /\ cls = "MeshStructured"
    /\ LET r == LoadCorners(self, x1, x2, y1, y2, dx_, dy_)
       IN  /\ self' = r.s
           /\ fs' = IF r.err = "ok" /\ save THEN SaveConf(r.s) ELSE fs
           /\ call' = [op |-> "load", x1 |-> x1, x2 |-> x2, y1 |-> y1, y2 |-> y2,
                       dx |-> dx_, dy |-> dy_, save |-> save, err |-> r.err]
    /\ UNCHANGED cls

\* load() with a corner left None and no file: nothing is assigned.
LoadNothing ==
    /\ cls = "MeshStructured"
    /\ call' = [op |-> "load_nothing", err |-> "ok"]
    /\ UNCHANGED <<cls, self, fs>>

\* load(file_mesh_ini=path)
LoadFile ==
    /\ cls = "MeshStructured"
    /\ LET r == ReadConf(self, fs)
       IN  /\ self' = r.s
           /\ call' = [op |-> "read_conf", err |-> r.err]
    /\ UNCHANGED <<cls, fs>>

\* MeshRectangle(key, x1, x2, y1, y2, dx, dy, file_mesh_ini_save): a
\* constructor that raises leaves no instance.  save_conf is called only if
\* the path does not exist yet.
NewRectangle(key, x1, x2, y1, y2, dx_, dy_, save) ==
    LET r  == RectangleCorners(RectangleInit(dx_, dy_), x1, x2, y1, y2)
        saves == r.err = "ok" /\ save /\ ~fs.exists
        sv == IF saves THEN RectangleSaveConf(r.s, key)
                       ELSE [fs |-> fs, err |-> r.err]
    IN  /\ cls' = IF sv.err = "ok" THEN "MeshRectangle" ELSE "none"
        /\ self' = IF sv.err = "ok" THEN r.s ELSE NoSelf
        /\ fs' = sv.fs
        /\ call' = [op |-> "MeshRectangle", x1 |-> x1, x2 |-> x2, y1 |-> y1,
                    y2 |-> y2, dx |-> dx_, dy |-> dy_, save |-> save,
                    key |-> key, built |-> r.s, saved |-> saves, err |-> sv.err]

\* MeshRectangle(key, dx=dx, dy=dy, file_mesh_ini=path)
NewRectangleFile(key, dx_, dy_) ==
    LET r == RectangleReadConf(RectangleInit(dx_, dy_), fs, key)
    IN  /\ cls' = IF r.err = "ok" THEN "MeshRectangle" ELSE "none"
        /\ self' = IF r.err = "ok" THEN r.s ELSE NoSelf
        /\ call' = [op |-> "MeshRectangle_file", key |-> key, err |-> r.err]
        /\ UNCHANGED fs

NoCall == [op |-> "none", err |-> "ok"]

\* The user writes or replaces the configuration file.  `call` is the last
\* call with nothing having happened since, so it is cleared.
PutFile(f) ==
    /\ fs' = f
    /\ call' = NoCall
    /\ UNCHANGED <<cls, self>>

\* The user removes the configuration file.
RemoveFile ==
    /\ fs.exists
    /\ fs' = NoFile
    /\ call' = NoCall
    /\ UNCHANGED <<cls, self>>

\* exec(xb, yb, zb, xc, yc, factor_select=f) on either class (MeshRectangle
\* reads the three columns from its file and takes no contour), the random
\* choice drawing `indices`.
Exec(xb, yb, zb, xc, yc, f, indices) ==
    /\ cls # "none"
    /\ cls = "MeshRectangle" => xc = <<>>
    /\ \E o \in ExecResults(self, cls, xb, yb, zb, xc, yc, f, indices) :
          /\ self' = o.s
          /\ call' = [op |-> "exec", xb |-> xb, yb |-> yb, zb |-> zb,
                      xc |-> xc, yc |-> yc, f |-> f,
                      loc |-> o.loc, err |-> o.err]
    /\ UNCHANGED <<cls, fs>>

\* set_var(x, y, var)
SetVar(px, py, var) ==
    /\ cls = "MeshStructured"
    /\ \E o \in SetVarResults(self, px, py, var) :
          call' = [op |-> "set_var", x |-> px, y |-> py, var |-> var,
                   ret |-> o.ret, tri |-> o.tri, err |-> o.err]
    /\ UNCHANGED <<cls, self, fs>>

----------------------------------------------------------------------------
(* Inputs.                                                                 *)

\* Corner coordinates.
Coords == {5 * i : i \in 0..MaxCoordIdx}

\* Spacings: negative, zero, two that bring an exact tie (5/2, 10/4), one
\* that divides evenly.
Spacings == {-5, 0, 2, 4, 5}

\* The survey points and their depths: the corners of the 10 x 10 square
\* and its centre.
SampleX == <<0, 10, 0, 10, 5>>

SampleY == <<0, 0, 10, 10, 5>>

SampleZ == <<5, 7, 9, 3, 6>>

\* The clouds, as the survey points they hold: the first 3 to MaxSamples
\* points, and for the lifecycle also a triangle that leaves the origin
\* outside and three points on one line.
SampleClouds == {[i \in 1..n |-> i] : n \in 3..MaxSamples}

Clouds == SampleClouds \cup {<<2, 3, 4>>, <<1, 4, 5>>}

CloudOf(a, q) == [i \in 1..Len(q) |-> a[q[i]]]

\* The arrays xb, yb, zb of a cloud.
Arrays(q) ==
    [xb |-> CloudOf(SampleX, q), yb |-> CloudOf(SampleY, q), zb |-> CloudOf(SampleZ, q)]

SampleArrays == {Arrays(q) : q \in SampleClouds}

CloudArrays == {Arrays(q) : q \in Clouds}

\* Retention fractions n/d.
Fractions ==
    {[n |-> -1, d |-> 2], [n |-> 0, d |-> 1], [n |-> 1, d |-> 1],
     [n |-> 11, d |-> 10], [n |-> 2, d |-> 1]}

\* Fractions in (0, 1].
ValidFractions == {[n |-> 1, d |-> 2], [n |-> 3, d |-> 4], [n |-> 1, d |-> 1]}

\* Two contours: a rectangle around the lower nodes of the reference grid,
\* and a triangle whose long edge passes through the node (5, 5).
Contours ==
    {[xc |-> <<-1, 6, 6, -1>>, yc |-> <<-1, -1, 3, 3>>],
     [xc |-> <<-1, 11, -1>>, yc |-> <<-1, -1, 11>>]}

\* The draws a call of exec may see: one placeholder when the size is
\* refused.
DrawsOf(N, f) ==
    LET k == SampleSize(N, f)
    IN  IF k < 0 \/ k > N THEN {<<>>} ELSE Choice(N, k)

Increasing(q) == \A i \in 1..(Len(q) - 1) : q[i] < q[i + 1]

\* The draws of the lifecycle, by cloud size and fraction: those in
\* increasing order.
OrderedDraws ==
    [N \in 3..MaxSamples |->
        [f \in Fractions |-> {d \in DrawsOf(N, f) : Increasing(d)}]]

\* Every draw, by cloud size and fraction.
AllDraws == [N \in 3..MaxSamples |-> [f \in ValidFractions |-> DrawsOf(N, f)]]

Keys == {"Main", "Nested"}

CoordTypes == {"UTM", "LONLAT"}

\* Corner arguments: every combination on one axis, the other axis being the
\* reference 0..10 at spacing 5 or the default spacing.
AxisInputs == {a \in [c1 : Coords, c2 : Coords, d : Spacings \cup {DefaultSpacing}] : TRUE}

ReferenceAxis == {[c1 |-> 0, c2 |-> 10, d |-> 5]}

CornerInputs ==
    {[x1 |-> a.c1, x2 |-> a.c2, dx |-> a.d, y1 |-> b.c1, y2 |-> b.c2, dy |-> b.d]
        : a \in AxisInputs, b \in ReferenceAxis}
    \cup
    {[x1 |-> b.c1, x2 |-> b.c2, dx |-> b.d, y1 |-> a.c1, y2 |-> a.c2, dy |-> a.d]
        : a \in AxisInputs, b \in ReferenceAxis}

\* A few corner inputs for the specifications that are about what follows
\* the configuration.
FewCorners ==
    {[x1 |-> 0, x2 |-> 10, dx |-> 5, y1 |-> 0, y2 |-> 10, dy |-> 5],
     [x1 |-> 10, x2 |-> 0, dx |-> 4, y1 |-> 0, y2 |-> 5, dy |-> 2],
     [x1 |-> 5, x2 |-> 5, dx |-> 5, y1 |-> 0, y2 |-> 10, dy |-> 5],
     [x1 |-> 0, x2 |-> 10, dx |-> 0, y1 |-> 0, y2 |-> 10, dy |-> 5]}

\* Configuration files a user may have written: section `sec`, the option
\* names of `mode`, the groups of options present, the counts written as
\* digits or (countKind "float") as 2.0.
EnvFile(sec, mode, groups, countKind) ==
    LET names == VarNames(mode)
        txt   == <<Text("float", 5), Text("float", 5), Text("int", 5), Text("int", 5),
                   Text(countKind, 2), Text(countKind, 2)>>
    IN  [exists |-> TRUE,
         sections |-> {[name |-> sec,
                        data |-> {[n |-> names[i], t |-> txt[i]]
                                   : i \in {i \in 1..6 : ((i + 1) \div 2) \in groups}}]}]

EnvFiles ==
    {EnvFile("Main", m, g, "int") : m \in CoordTypes, g \in SUBSET {1, 2, 3}}
    \cup {EnvFile("Nested", "UTM", {1, 2, 3}, "int"),
          EnvFile("Main", "UTM", {1, 2, 3}, "float")}

----------------------------------------------------------------------------
(* Specifications.                                                         *)

\* The life of an instance: construction, configuration, exec, set_var.
\* The random choice of exec is bounded to draws in increasing order.
Next ==
    \/ NewStructured("Main", "UTM")
    \/ \E c \in FewCorners :
          Load(PyInt(c.x1), PyInt(c.x2), PyInt(c.y1), PyInt(c.y2),
               PyInt(c.dx), PyInt(c.dy), FALSE)
    \/ LoadNothing
    \/ \E c \in FewCorners :
          NewRectangle("Main", PyInt(c.x1), PyInt(c.x2), PyInt(c.y1), PyInt(c.y2),
                       PyInt(c.dx), PyInt(c.dy), FALSE)
    \/ \E a \in CloudArrays : \E f \in Fractions :
          \E indices \in OrderedDraws[Len(a.xb)][f] :
             Exec(a.xb, a.yb, a.zb, <<>>, <<>>, f, indices)
    \/ \E a \in SampleArrays : \E c \in Contours :
          \E indices \in OrderedDraws[Len(a.xb)][[n |-> 1, d |-> 1]] :
             Exec(a.xb, a.yb, a.zb, c.xc, c.yc, [n |-> 1, d |-> 1], indices)
    \/ \E a \in CloudArrays : SetVar(a.xb, a.yb, a.zb)

Spec == Init /\ [][Next]_vars

\* Building the grid from corner points, over every corner input.
NextCorners ==
    \/ NewStructured("Main", "UTM")
    \/ \E c \in CornerInputs :
          Load(PyInt(c.x1), PyInt(c.x2), PyInt(c.y1), PyInt(c.y2),
               PyInt(c.dx), PyInt(c.dy), FALSE)
    \/ \E c \in CornerInputs :
          NewRectangle("Main", PyInt(c.x1), PyInt(c.x2), PyInt(c.y1), PyInt(c.y2),
                       PyInt(c.dx), PyInt(c.dy), FALSE)

SpecCorners == Init /\ [][NextCorners]_vars

\* The configuration file: saved by a build from corners, written by the
\* user, read by either class.
NextConf ==
    \/ \E ct \in CoordTypes : NewStructured("Main", ct)
    \/ \E c \in FewCorners : \E save \in BOOLEAN :
          Load(PyInt(c.x1), PyInt(c.x2), PyInt(c.y1), PyInt(c.y2),
               PyInt(c.dx), PyInt(c.dy), save)
    \/ LoadFile
    \/ \E c \in FewCorners : \E save \in BOOLEAN :
          NewRectangle("Main", PyInt(c.x1), PyInt(c.x2), PyInt(c.y1), PyInt(c.y2),
                       PyInt(c.dx), PyInt(c.dy), save)
    \/ \E k \in Keys : NewRectangleFile(k, PyInt(DefaultSpacing), PyInt(DefaultSpacing))
    \/ \E f \in EnvFiles : PutFile(f)
    \/ RemoveFile

SpecConf == Init /\ [][NextConf]_vars

\* The reduction of the point cloud, over every draw of the random choice;
\* exec is called once after each configuration of the grid.
NextSample ==
    \/ NewStructured("Main", "UTM")
    \/ \E c \in {c \in FewCorners : c.dx = 5 /\ c.x1 = 0} :
          Load(PyInt(c.x1), PyInt(c.x2), PyInt(c.y1), PyInt(c.y2),
               PyInt(c.dx), PyInt(c.dy), FALSE)
    \/ \E c \in {c \in FewCorners : c.dx = 5 /\ c.x1 = 0} :
          NewRectangle("Main", PyInt(c.x1), PyInt(c.x2), PyInt(c.y1), PyInt(c.y2),
                       PyInt(c.dx), PyInt(c.dy), FALSE)
    \/ /\ call.op # "exec"
       /\ \E a \in SampleArrays : \E f \in ValidFractions :
             \E indices \in AllDraws[Len(a.xb)][f] :
                Exec(a.xb, a.yb, a.zb, <<>>, <<>>, f, indices)

SpecSample == Init /\ [][NextSample]_vars

----------------------------------------------------------------------------
(* Properties.                                                             *)

GridNames == {"xmin", "ymin", "dx", "dy", "nx", "ny"}

\* The six grid parameters of s and t have the same values.
SameGrid(s, t) == \A a \in GridNames : s[a].v = t[a].v

\* n is w / d rounded to the nearest integer, a tie going to the even one.
IsRounded(n, w, d) ==
    /\ 2 * Abs(n * d - w) <= d
    /\ 2 * Abs(n * d - w) = d => n % 2 = 0

\* The last call built a grid from corner points.
FromCorners == call.op \in {"load", "MeshRectangle"}

\* The attributes the last call from corner points left or built.
Built == IF call.op = "MeshRectangle" THEN call.built ELSE self

\* The grid the same call builds with x1 and x2 exchanged.
SwappedX ==
    IF call.op = "MeshRectangle"
    THEN RectangleCorners(RectangleInit(call.dx, call.dy),
                          call.x2, call.x1, call.y1, call.y2)
    ELSE LoadCorners(self, call.x2, call.x1, call.y1, call.y2, call.dx, call.dy)

\* The grid the same call builds with y1 and y2 exchanged.
SwappedY ==
    IF call.op = "MeshRectangle"
    THEN RectangleCorners(RectangleInit(call.dx, call.dy),
                          call.x1, call.x2, call.y2, call.y1)
    ELSE LoadCorners(self, call.x1, call.x2, call.y2, call.y1, call.dx, call.dy)

\* C1: building the grid from corner points with positive spacings (load,
\* MeshRectangle's constructor) succeeds, sets the origin to (min(x1, x2),
\* min(y1, y2)) and the counts to round(|x2 - x1| / dx), round(|y2 - y1| / dy),
\* and builds the same origin, spacing and counts when x1 and x2, or y1 and
\* y2, are exchanged.
C1_CornersGiveOriginAndCounts ==
    (FromCorners /\ call.dx.v > 0 /\ call.dy.v > 0) =>
        /\ call.err = "ok"
        /\ Built.xmin.v = (IF call.x1.v < call.x2.v THEN call.x1.v ELSE call.x2.v)
        /\ Built.ymin.v = (IF call.y1.v < call.y2.v THEN call.y1.v ELSE call.y2.v)
        /\ Built.dx.v = call.dx.v
        /\ Built.dy.v = call.dy.v
        /\ IsRounded(Built.nx.v, Abs(call.x2.v - call.x1.v), call.dx.v)
        /\ IsRounded(Built.ny.v, Abs(call.y2.v - call.y1.v), call.dy.v)
        /\ SwappedX.err = "ok" /\ SameGrid(SwappedX.s, Built)
        /\ SwappedY.err = "ok" /\ SameGrid(SwappedY.s, Built)

\* load with x1 = 10 > x2 = 0 and spacing 4: the extent 10 / 4 is the tie
\* 2.5, rounded to the count 2, from the origin 0.
C1_Witness ==
    /\ call.op = "load" /\ call.err = "ok"
    /\ call.x1.v = 10 /\ call.x2.v = 0 /\ call.dx.v = 4
    /\ self.xmin.v = 0 /\ self.nx.v = 2

\* The nodes of a grid x, y, as points.
Nodes(x, y) ==
    UNION {{[x |-> x[i][j], y |-> y[i][j]] : j \in 1..Len(x[i])} : i \in 1..Len(x)}

\* Every value of row 0 of y is the largest of y and every value of the last
\* row the smallest.
MaxYFirst(y) ==
    Elements(y) # {} =>
        /\ \A j \in 1..Len(y[1]) : y[1][j] = SetMax(Elements(y))
        /\ \A j \in 1..Len(y[Len(y)]) : y[Len(y)][j] = SetMin(Elements(y))

\* C2: in the node grid exec stores and in the one set_var returns, row 0
\* holds the maximum Y and the last row the minimum Y.
C2_RowZeroIsMaxY ==
    /\ (call.op = "exec" /\ call.err = "ok") => MaxYFirst(self.y)
    /\ (call.op = "set_var" /\ call.err = "ok") => MaxYFirst(call.ret.y_mesh)

\* At every node of the grid x, y outside the hull of triangulation T of the
\* points, the field v holds the "no data" marker.
NoDataOutside(px, py, T, x, y, v) ==
    \A i \in 1..Len(x) : \A j \in 1..Len(x[i]) :
        OutsideHull(px, py, T, [x |-> x[i][j], y |-> y[i][j]]) => v[i][j] = NaN

\* C3: a node outside the convex hull of the samples receives the "no data"
\* marker, in the depth field of exec and in the field set_var returns.
C3_NoDataOutsideHull ==
    /\ (call.op = "exec" /\ call.err = "ok") =>
          NoDataOutside(call.loc.xb_s, call.loc.yb_s, call.loc.tri,
                        self.x, self.y, self.z)
    /\ (call.op = "set_var" /\ call.err = "ok") =>
          NoDataOutside(call.x, call.y, call.tri,
                        call.ret.x_mesh, call.ret.y_mesh, call.ret.var_mesh)

\* Every grid parameter of the instance holds a number.
Configured == \A a \in GridNames : IsNum(self[a])

Count(xs, ys, zs, p) ==
    Cardinality({i \in 1..Len(xs) : <<xs[i], ys[i], zs[i]>> = p})

\* exec has reached and passed its reduction step.
Reduced == call.op = "exec" /\ call.err \in {"ok", "QhullError"}

\* C5: the reduction step of exec on N samples with fraction f in (0, 1]
\* keeps exactly floor(N * f) points, each from an index of the input, no
\* index twice, x, y and z of a kept point from the same index; with f = 1
\* the kept points are multiset-equal to the input.
C5_ReductionKeepsDistinctSamples ==
    (Reduced /\ call.f.n > 0 /\ call.f.n <= call.f.d) =>
        LET N == Len(call.xb)
            q == call.loc.indices
        IN  /\ Len(q) = (N * call.f.n) \div call.f.d
            /\ Len(call.loc.xb_s) = Len(q)
            /\ Len(call.loc.yb_s) = Len(q)
            /\ Len(call.loc.zb_s) = Len(q)
            /\ \A i \in 1..Len(q) :
                  /\ q[i] \in 0..(N - 1)
                  /\ \A j \in 1..Len(q) : i # j => q[i] # q[j]
                  /\ call.loc.xb_s[i] = call.xb[q[i] + 1]
                  /\ call.loc.yb_s[i] = call.yb[q[i] + 1]
                  /\ call.loc.zb_s[i] = call.zb[q[i] + 1]
            /\ call.f.n = call.f.d =>
                  \A i \in 1..N :
                      Count(call.loc.xb_s, call.loc.yb_s, call.loc.zb_s,
                            <<call.xb[i], call.yb[i], call.zb[i]>>)
                      = Count(call.xb, call.yb, call.zb,
                              <<call.xb[i], call.yb[i], call.zb[i]>>)

\* Three of four samples kept at fraction 3/4, drawn out of order.
C5_Witness ==
    /\ call.op = "exec" /\ call.err = "ok"
    /\ Len(call.xb) = 4 /\ call.f = [n |-> 3, d |-> 4]
    /\ Len(call.loc.indices) = 3
    /\ call.loc.indices[1] > call.loc.indices[2]

\* C6: a grid built from corner points and saved under its key is read back
\* from the saved file, with the same key and coordinate mode, with the same
\* origin, spacing and counts, for MeshStructured in both modes and for
\* MeshRectangle.
C6_SaveThenReadGivesSameGrid ==
    /\ (call.op = "load" /\ call.err = "ok" /\ call.save) =>
          LET r == ReadConf(StructuredInit(self.key, self.coord_type), fs)
          IN  r.err = "ok" /\ SameGrid(r.s, self)
    /\ (call.op = "MeshRectangle" /\ call.saved) =>
          LET r == RectangleReadConf(RectangleInit(PyInt(DefaultSpacing),
                                                   PyInt(DefaultSpacing)),
                                     fs, call.key)
          IN  call.err = "ok" /\ r.err = "ok" /\ SameGrid(r.s, call.built)

\* C7: building from corner points fails, and leaves no grid, whenever an
\* extent is zero (x1 = x2 or y1 = y2) or a spacing is not positive; a build
\* that succeeds has positive counts.
C7_InvalidDomainIsRejected ==
    FromCorners =>
        /\ (\/ call.x1.v = call.x2.v \/ call.y1.v = call.y2.v
            \/ call.dx.v <= 0 \/ call.dy.v <= 0) => call.err # "ok"
        /\ call.err = "ok" => (Built.nx.v > 0 /\ Built.ny.v > 0)

\* C8: exec fails for every fraction f <= 0 or f > 1, those just above 1
\* included, and stores no depth field.
C8_InvalidFractionIsRejected ==
    (call.op = "exec" /\ (call.f.n <= 0 \/ call.f.n > call.f.d)) =>
        call.err # "ok"

\* The key and the option names the last read of the configuration used.
ReadKey == IF call.op = "MeshRectangle_file" THEN call.key ELSE self.key

ReadNames == IF call.op = "MeshRectangle_file" THEN VarNames("UTM")
                                               ELSE VarNames(self.coord_type)

\* C9: building from a configuration fails when the file does not exist,
\* when the section of the key is missing and when an origin option is
\* missing from the section; it never succeeds leaving the origin unset.
C9_MissingOriginIsRejected ==
    call.op \in {"read_conf", "MeshRectangle_file"} =>
        /\ ~fs.exists => call.err # "ok"
        /\ (fs.exists /\ ~HasSection(fs, ReadKey)) => call.err # "ok"
        /\ (/\ fs.exists /\ HasSection(fs, ReadKey)
            /\ \E i \in 1..2 : ~Has(Section(fs, ReadKey), ReadNames[i]))
              => call.err # "ok"
        /\ (call.err = "ok" /\ cls # "none") => (IsNum(self.xmin) /\ IsNum(self.ymin))

\* exec has succeeded on the grid of origin (0, 0), spacing (5, 5) and
\* counts (2, 2).
ScenarioComputed ==
    /\ call.op = "exec" /\ call.err = "ok"
    /\ self.xmin.v = 0 /\ self.ymin.v = 0
    /\ self.dx.v = 5 /\ self.dy.v = 5
    /\ self.nx.v = 2 /\ self.ny.v = 2

\* The array a has r rows of c columns.
Shape(a, r, c) == Len(a) = r /\ \A i \in 1..Len(a) : Len(a[i]) = c

\* C10 as stated: on origin (0, 0), spacing (5, 5), counts (2, 2), exec
\* stores a node grid and a depth field of 3 rows by 3 columns, the nodes
\* (0, 0), (5, 5) and the far corner (10, 10) among them.
C10_ThreeByThreeWithFarCorner ==
    ScenarioComputed =>
        /\ Shape(self.x, 3, 3) /\ Shape(self.y, 3, 3) /\ Shape(self.z, 3, 3)
        /\ {[x |-> 0, y |-> 0], [x |-> 5, y |-> 5], [x |-> 10, y |-> 10]}
              \subseteq Nodes(self.x, self.y)

\* C10: on origin (0, 0), spacing (5, 5), counts (2, 2), exec stores a node
\* grid and a depth field of 2 rows by 2 columns, the nodes being (0, 0),
\* (5, 0), (0, 5) and (5, 5); the far corner (10, 10) is not a node.
C10_TwoByTwoWithoutFarCorner ==
    ScenarioComputed =>
        /\ Shape(self.x, 2, 2) /\ Shape(self.y, 2, 2) /\ Shape(self.z, 2, 2)
        /\ Nodes(self.x, self.y)
              = {[x |-> 0, y |-> 0], [x |-> 5, y |-> 0],
                 [x |-> 0, y |-> 5], [x |-> 5, y |-> 5]}

\* exec on the four samples at the corners of the domain, all kept.
C10_Witness ==
    /\ ScenarioComputed
    /\ call.xb = <<0, 10, 0, 10>> /\ call.yb = <<0, 0, 10, 10>>
    /\ call.zb = <<5, 7, 9, 3>>
    /\ Len(call.loc.indices) = 4
    /\ self.z[2][1] = [n |-> 5, d |-> 1]

\* The stored node coordinates are those exec builds from the current grid
\* parameters.
NodesAreCurrent ==
    /\ Configured
    /\ self.dx.v # 0 /\ self.dy.v # 0
    /\ self.x = MeshgridX(NodeAxes(self).x_ext, NodeAxes(self).y_ext)
    /\ self.y = ExecY(NodeAxes(self).x_ext, NodeAxes(self).y_ext)

\* The arrays a and b have the same rows and columns.
SameShape(a, b) == Len(a) = Len(b) /\ \A i \in 1..Len(a) : Len(a[i]) = Len(b[i])

\* C11: after any sequence of load and exec calls on a MeshStructured
\* instance, a re-load after exec and an exec that fails part-way included,
\* the stored node coordinates x, y are those of the current grid parameters
\* and the stored depth field z has the shape of the stored node grid.
C11_StoredGridIsCurrent ==
    cls = "MeshStructured" =>
        /\ self.x # <<>> => NodesAreCurrent
        /\ self.z # <<>> => SameShape(self.z, self.x)

====
